---- MODULE Spec2Model ----
(***************************************************************************)
(* NIROGYA fusion / classification / aggregation pipeline.                 *)
(*                                                                         *)
(*   backend/services/predictor.py      build_features, predict_disease    *)
(*   backend/services/merger.py         identity resolution, coordinate    *)
(*                                      extraction, the fusion pipeline    *)
(*   backend/services/mongo_client.py   reporter activity records          *)
(*   backend/routes/prediction_outbreaks.py   outbreak aggregation         *)
(*                                                                         *)
(* Python values are tagged records.  A string is a sequence of one-       *)
(* character strings, so that strip(), lower(), split(","), substring      *)
(* search and float() parsing are computed character by character.         *)
(* Numbers are integers: float(7) is 7 and the default 0.0 is 0.           *)
(***************************************************************************)
EXTENDS Integers, Sequences, FiniteSets, TLC

VARIABLES
    w_doc, s_doc, features,          \* build_features: arguments, result
    doc, users, resolved,            \* _resolve_reporter_id_from_doc: argument, registry, results
    sym_doc, water_doc, center,      \* _extract_center: arguments, result
    model_loaded,                    \* predictor._model is not None
    requests,                        \* merge_and_predict_and_store: arguments of each call
    pc,                              \* ... the await each call is suspended at
    running,                         \* ... the call that holds the event loop thread
    local,                           \* ... predicted_label, reporter_oid of each call
    trace,                           \* ... the steps each call has taken
    result,                          \* ... what each call returned
    prediction_col,                  \* db["prediction_reports"]
    symptom_col,                     \* db["symptom_reports"]
    asha_workers_col,                \* db["asha_workers"]
    user_id_index,                   \* asha_workers has the unique index on user_id
    prediction_bag, symptom_bag,     \* get_prediction_outbreaks: the documents of the two
                                     \* collections inside the window, counted by kind
    query,                           \* ... the parameters of the call
    response                         \* ... what the call returned

featureVars  == <<w_doc, s_doc, features>>
resolverVars == <<doc, users, resolved>>
centerVars   == <<sym_doc, water_doc, center>>
fusionVars   == <<model_loaded, requests, pc, running, local, trace, result,
                  prediction_col, symptom_col, asha_workers_col, user_id_index>>

outbreakVars == <<prediction_bag, symptom_bag, query, response>>

vars == <<featureVars, resolverVars, centerVars, fusionVars, outbreakVars>>

-----------------------------------------------------------------------------
(* Python values                                                           *)

NONE   == [t |-> "none"]
ABSENT == [t |-> "absent"]          \* a key that is not in a dict
RAISED == [t |-> "raise"]           \* the call ended with an exception
NOT_CALLED == [t |-> "not_called"]

\* The variables of the operations a specification does not exercise.
FeaturesUnused == w_doc = NONE /\ s_doc = NONE /\ features = NOT_CALLED
ResolverUnused == doc = NONE /\ users = <<>> /\ resolved = NOT_CALLED
CenterUnused   == sym_doc = NONE /\ water_doc = NONE /\ center = NOT_CALLED
FusionUnused ==
    /\ model_loaded = TRUE /\ requests = <<>> /\ pc = <<>> /\ running = 0
    /\ local = <<>> /\ trace = <<>> /\ result = <<>>
    /\ prediction_col = <<>> /\ symptom_col = <<>> /\ asha_workers_col = <<>>
    /\ user_id_index = FALSE
OutbreakUnused ==
    prediction_bag = <<>> /\ symptom_bag = <<>> /\ query = NONE /\ response = NOT_CALLED

Str(s)  == [t |-> "str", s |-> s]
Num(n)  == [t |-> "num", n |-> n]
List(l) == [t |-> "list", l |-> l]
Dict(d) == [t |-> "dict", d |-> d]
Oid(h)  == [t |-> "oid", h |-> h]   \* bson.ObjectId with hex digits h

IsStr(v)  == v.t = "str"
IsNum(v)  == v.t = "num"
IsList(v) == v.t = "list"
IsDict(v) == v.t = "dict"
IsOid(v)  == v.t = "oid"

\* bool(v)
Truthy(v) ==
    CASE v.t = "none" -> FALSE
      [] v.t = "absent" -> FALSE
      [] v.t = "num" -> v.n # 0
      [] v.t = "str" -> Len(v.s) > 0
      [] v.t = "list" -> Len(v.l) > 0
      [] v.t = "dict" -> \E k \in DOMAIN v.d : v.d[k] # ABSENT
      [] OTHER -> TRUE

\* a or b
Or(a, b) == IF Truthy(a) THEN a ELSE b

\* k in d
HasKey(d, k) == IsDict(d) /\ k \in DOMAIN d.d /\ d.d[k] # ABSENT

\* d.get(k)
Get(d, k) == IF HasKey(d, k) THEN d.d[k] ELSE NONE

\* d.get(k, default)
GetDefault(d, k, default) == IF HasKey(d, k) THEN d.d[k] ELSE default

EmptyDict == Dict(<<>>)

\* A dict whose insertion order matters: the sequence of its (name, val) items.
Items(items) == [t |-> "items", items |-> items]
Names(d) == [i \in 1..Len(d.items) |-> d.items[i].name]
Item(d, name) == (CHOOSE i \in 1..Len(d.items) : d.items[i].name = name)
ItemVal(d, name) == d.items[Item(d, name)].val

-----------------------------------------------------------------------------
(* Strings                                                                 *)

UpperChars == <<"A","B","C","D","E","F","G","H","I","J","K","L","M",
                "N","O","P","Q","R","S","T","U","V","W","X","Y","Z">>
LowerChars == <<"a","b","c","d","e","f","g","h","i","j","k","l","m",
                "n","o","p","q","r","s","t","u","v","w","x","y","z">>
DigitChars == <<"0","1","2","3","4","5","6","7","8","9">>

UpperSet == {UpperChars[i] : i \in DOMAIN UpperChars}
DigitSet == {DigitChars[i] : i \in DOMAIN DigitChars}
LowerMap == [c \in UpperSet |-> LowerChars[CHOOSE i \in DOMAIN UpperChars : UpperChars[i] = c]]
DigitMap == [c \in DigitSet |-> (CHOOSE i \in DOMAIN DigitChars : DigitChars[i] = c) - 1]

IsUpperChar(c) == c \in UpperSet
IsDigitChar(c) == c \in DigitSet
DigitValue(c)  == DigitMap[c]
LowerChar(c) == IF IsUpperChar(c) THEN LowerMap[c] ELSE c

\* str.lower()
Lower(s) == [i \in 1..Len(s) |-> LowerChar(s[i])]

IsSpace(c) == c = " "

\* str.strip()
RECURSIVE LStrip(_)
LStrip(s) == IF s # <<>> /\ IsSpace(Head(s)) THEN LStrip(Tail(s)) ELSE s
RECURSIVE RStrip(_)
RStrip(s) == IF s # <<>> /\ IsSpace(s[Len(s)]) THEN RStrip(SubSeq(s, 1, Len(s) - 1)) ELSE s
Strip(s) == RStrip(LStrip(s))

\* str.split(","): the pieces between commas, empty pieces included
RECURSIVE SplitFrom(_, _, _)
SplitFrom(s, i, cur) ==
    IF i > Len(s) THEN <<cur>>
    ELSE IF s[i] = "," THEN <<cur>> \o SplitFrom(s, i + 1, <<>>)
    ELSE SplitFrom(s, i + 1, Append(cur, s[i]))
SplitComma(s) == SplitFrom(s, 1, <<>>)

\* sub in s  (substring)
Contains(s, sub) ==
    \E i \in 1..(Len(s) - Len(sub) + 1) : SubSeq(s, i, i + Len(sub) - 1) = sub

\* value of a string of decimal digits
RECURSIVE DigitsValue(_)
DigitsValue(s) ==
    IF s = <<>> THEN 0 ELSE 10 * DigitsValue(SubSeq(s, 1, Len(s) - 1)) + DigitValue(s[Len(s)])

\* str(n) for n >= 0
RECURSIVE DigitsOf(_)
DigitsOf(n) == IF n < 10 THEN <<DigitChars[n + 1]>> ELSE Append(DigitsOf(n \div 10), DigitChars[(n % 10) + 1])

\* x in list
InList(x, l) == \E i \in 1..Len(l) : l[i] = x

-----------------------------------------------------------------------------
(* float()                                                                 *)

\* float(v) succeeds on a number and on a string that, stripped, is a decimal
\* literal.  The strings of this model hold no sign, point or exponent, so the
\* literals are the non-empty digit strings.
FloatOk(v) ==
    \/ IsNum(v)
    \/ IsStr(v) /\ Strip(v.s) # <<>> /\ \A i \in 1..Len(Strip(v.s)) : IsDigitChar(Strip(v.s)[i])

Float(v) == IF IsNum(v) THEN v ELSE Num(DigitsValue(Strip(v.s)))

-----------------------------------------------------------------------------
(* predictor.py: the Feature Builder                                       *)

\* try: float(v)  except: 0.0
safe_float(v) == IF FloatOk(v) THEN Float(v) ELSE Num(0)

\* str(v)
PyStr(v) ==
    CASE IsStr(v) -> v.s
      [] IsNum(v) -> DigitsOf(v.n)
      [] IsOid(v) -> v.h
      [] OTHER -> <<"N","o","n","e">>

\* normalize_symptoms: the lower-cased list, or RAISED when the value cannot be
\* iterated (of the values of this model: a non-zero number, an ObjectId).
normalize_symptoms(symptoms) ==
    IF ~Truthy(symptoms) THEN List(<<>>)
    ELSE IF IsStr(symptoms)
    THEN LET parts == SplitComma(symptoms.s)
         IN List([i \in 1..Len(parts) |-> Str(Lower(Strip(parts[i])))])
    ELSE IF IsList(symptoms)
    THEN List([i \in 1..Len(symptoms.l) |-> Str(Lower(PyStr(symptoms.l[i])))])
    ELSE RAISED

s_diarrhea       == <<"d","i","a","r","r","h","e","a">>
s_vomiting       == <<"v","o","m","i","t","i","n","g">>
s_fever          == <<"f","e","v","e","r">>
s_abdominal_pain == <<"a","b","d","o","m","i","n","a","l"," ","p","a","i","n">>
s_stomach_pain   == <<"s","t","o","m","a","c","h"," ","p","a","i","n">>
s_dehydration    == <<"d","e","h","y","d","r","a","t","i","o","n">>
s_headache       == <<"h","e","a","d","a","c","h","e">>

\* 1 if tag in symptoms_list else 0
Flag(tag, symptoms_list) == IF InList(Str(tag), symptoms_list.l) THEN Num(1) ELSE Num(0)

\* (v or "").strip(): AttributeError when v is truthy and not a string
OrEmptyStrip(v) ==
    LET x == Or(v, Str(<<>>))
    IN IF IsStr(x) THEN Str(Strip(x.s)) ELSE RAISED

\* (a variant of FeatureDict: the symptom flags before the measurements)
FeatureDictSymptomsFirst(cat, num, symptoms_list) ==
  Items(
    << [name |-> "district",       val |-> cat.district],
       [name |-> "location",       val |-> cat.location],
       [name |-> "primary_source", val |-> cat.source],
       [name |-> "diarrhea",       val |-> Flag(s_diarrhea, symptoms_list)],
       [name |-> "vomiting",       val |-> Flag(s_vomiting, symptoms_list)],
       [name |-> "fever",          val |-> Flag(s_fever, symptoms_list)],
       [name |-> "abdominal_pain", val |-> IF InList(Str(s_abdominal_pain), symptoms_list.l)
                                              \/ InList(Str(s_stomach_pain), symptoms_list.l)
                                           THEN Num(1) ELSE Num(0)],
       [name |-> "dehydration",    val |-> Flag(s_dehydration, symptoms_list)],
       [name |-> "headache",       val |-> Flag(s_headache, symptoms_list)],
       [name |-> "ph",             val |-> num.ph],
       [name |-> "turbidity",      val |-> num.turbidity],
       [name |-> "tds",            val |-> num.tds],
       [name |-> "chlorine",       val |-> num.chlorine],
       [name |-> "fluoride",       val |-> num.fluoride],
       [name |-> "nitrate",        val |-> num.nitrate],
       [name |-> "coliform",       val |-> num.coliform],
       [name |-> "temperature",    val |-> num.temperature] >>)

\* The features dict literal, in its insertion order.  cat holds the three
\* categorical values, num the eight measurements.
FeatureDict(cat, num, symptoms_list) ==
  Items(
    << [name |-> "district",       val |-> cat.district],
       [name |-> "location",       val |-> cat.location],
       [name |-> "primary_source", val |-> cat.source],
       [name |-> "ph",             val |-> num.ph],
       [name |-> "turbidity",      val |-> num.turbidity],
       [name |-> "tds",            val |-> num.tds],
       [name |-> "chlorine",       val |-> num.chlorine],
       [name |-> "fluoride",       val |-> num.fluoride],
       [name |-> "nitrate",        val |-> num.nitrate],
       [name |-> "coliform",       val |-> num.coliform],
       [name |-> "temperature",    val |-> num.temperature],
       [name |-> "diarrhea",       val |-> Flag(s_diarrhea, symptoms_list)],
       [name |-> "vomiting",       val |-> Flag(s_vomiting, symptoms_list)],
       [name |-> "fever",          val |-> Flag(s_fever, symptoms_list)],
       [name |-> "abdominal_pain", val |-> IF InList(Str(s_abdominal_pain), symptoms_list.l)
                                              \/ InList(Str(s_stomach_pain), symptoms_list.l)
                                           THEN Num(1) ELSE Num(0)],
       [name |-> "dehydration",    val |-> Flag(s_dehydration, symptoms_list)],
       [name |-> "headache",       val |-> Flag(s_headache, symptoms_list)] >>)

\* w_doc.get(k, 0) if w_doc else 0
Measure(w, k) == IF Truthy(w) THEN GetDefault(w, k, Num(0)) ELSE Num(0)

\* build_features(w_doc, s_doc): the feature dict as its sequence of items, or
\* RAISED.  Both arguments are a dict or None.
build_features(w, s) ==
    LET district == OrEmptyStrip(Or(IF Truthy(s) THEN Get(s, "district") ELSE NONE,
                                    IF Truthy(w) THEN Get(w, "district") ELSE NONE))
        location == OrEmptyStrip(Or(IF Truthy(s) THEN Get(s, "location") ELSE NONE,
                                    IF Truthy(w) THEN Get(w, "location") ELSE NONE))
        source   == OrEmptyStrip(IF Truthy(w)
                                 THEN Or(Or(Get(w, "primary_water_source"), Get(w, "water_source")),
                                         Get(w, "primaryWaterSource"))
                                 ELSE NONE)
        num == [ph          |-> safe_float(IF Truthy(w) THEN Or(Get(w, "ph"), Get(w, "pH")) ELSE Num(0)),
                turbidity   |-> safe_float(Measure(w, "turbidity")),
                tds         |-> safe_float(Measure(w, "tds")),
                chlorine    |-> safe_float(Measure(w, "chlorine")),
                fluoride    |-> safe_float(Measure(w, "fluoride")),
                nitrate     |-> safe_float(Measure(w, "nitrate")),
                coliform    |-> safe_float(Measure(w, "coliform")),
                temperature |-> safe_float(Measure(w, "temperature"))]
        symptoms_list == normalize_symptoms(IF Truthy(s) THEN Get(s, "symptoms") ELSE List(<<>>))
    IN IF district = RAISED \/ location = RAISED \/ source = RAISED \/ symptoms_list = RAISED
       THEN RAISED
       ELSE FeatureDict([district |-> district, location |-> location, source |-> source],
                        num, symptoms_list)

(* train_model.py: the column order the classifier is fitted on            *)
categorical_features == <<"district", "location", "primary_source">>
symptom_features == <<"diarrhea", "vomiting", "fever", "abdominal_pain", "dehydration", "headache">>
water_features == <<"ph", "turbidity", "tds", "chlorine", "fluoride", "nitrate", "coliform", "temperature">>
feature_cols == categorical_features \o water_features \o symptom_features

-----------------------------------------------------------------------------
(* merger.py: the Identity Resolver                                        *)

HexChars == <<"0","1","2","3","4","5","6","7","8","9","a","b","c","d","e","f","A","B","C","D","E","F">>
HexSet == {HexChars[i] : i \in DOMAIN HexChars}
IsHexChar(c) == c \in HexSet

\* _looks_like_objectid(s)
looks_like_objectid(s) ==
    IsStr(s) /\ Len(s.s) = 24 /\ \A i \in 1..Len(s.s) : IsHexChar(s.s[i])

\* (a variant of maybe_cast_to_objectid: only ObjectId instances pass)
maybe_cast_instances_only(val) == IF IsOid(val) THEN val ELSE NONE

\* _maybe_cast_to_objectid(val).  ObjectId(hex) keeps the 12 bytes the digits
\* denote, so two spellings that differ in letter case are the same ObjectId.
maybe_cast_to_objectid(val) ==
    IF IsOid(val) THEN val
    ELSE IF IsStr(val) /\ looks_like_objectid(val) THEN Oid(Lower(val.s))
    ELSE NONE

\* re.sub(r"[^\d]", "", val)
RECURSIVE OnlyDigits(_)
OnlyDigits(s) ==
    IF s = <<>> THEN <<>>
    ELSE IF IsDigitChar(Head(s)) THEN <<Head(s)>> \o OnlyDigits(Tail(s))
    ELSE OnlyDigits(Tail(s))

\* {field: {"$regex": "^" + re.escape(val) + "$", "$options": "i"}}
RegexExactI(field, val) == IsStr(field) /\ Lower(field.s) = Lower(val)
\* {field: {"$regex": digits}}
RegexFind(field, pattern) == IsStr(field) /\ Contains(field.s, pattern)

\* The three queries of _find_user_id_from_string on a user document.
EmailQuery(u, val) == RegexExactI(u.email, val)
PhoneQuery(u, val) == RegexFind(u.phone, OnlyDigits(val))
NameQuery(u, val)  == RegexExactI(u.full_name, val)
QueryMatches(u, field, val) ==
    CASE field = "email" -> EmailQuery(u, val)
      [] field = "phone" -> PhoneQuery(u, val)
      [] field = "full_name" -> NameQuery(u, val)

\* users_col.find_one({field: ...}): the first matching user in the
\* collection's natural order, None when there is none; RAISED when the store
\* cannot be reached (up = FALSE).
find_one(registry, up, field, val) ==
    IF ~up THEN RAISED
    ELSE LET hits == {i \in 1..Len(registry) : QueryMatches(registry[i], field, val)}
         IN IF hits = {} THEN NONE
            ELSE registry[CHOOSE i \in hits : \A j \in hits : i <= j]

\* (a variant of find_user_id_from_string: the phone lookup before the email lookup)
find_user_phone_first(val, registry, up) ==
    IF ~Truthy(val) \/ ~IsStr(val) THEN NONE
    ELSE IF Truthy(maybe_cast_to_objectid(val)) THEN maybe_cast_to_objectid(val)
    ELSE
      LET byEmail == IF Contains(val.s, <<"@">>) /\ Contains(val.s, <<".">>)
                     THEN find_one(registry, up, "email", val.s) ELSE NONE
          byPhone == IF Len(OnlyDigits(val.s)) >= 6
                     THEN find_one(registry, up, "phone", val.s) ELSE NONE
          byName  == find_one(registry, up, "full_name", val.s)
      IN IF byPhone = RAISED THEN RAISED
         ELSE IF byPhone # NONE THEN byPhone._id
         ELSE IF byEmail = RAISED THEN RAISED
         ELSE IF byEmail # NONE THEN byEmail._id
         ELSE IF byName = RAISED THEN RAISED
         ELSE IF byName # NONE THEN byName._id
         ELSE NONE

\* _find_user_id_from_string(val): an ObjectId, None, or RAISED
find_user_id_from_string(val, registry, up) ==
    IF ~Truthy(val) \/ ~IsStr(val) THEN NONE
    ELSE IF Truthy(maybe_cast_to_objectid(val)) THEN maybe_cast_to_objectid(val)
    ELSE
      LET byEmail == IF Contains(val.s, <<"@">>) /\ Contains(val.s, <<".">>)
                     THEN find_one(registry, up, "email", val.s) ELSE NONE
          byPhone == IF Len(OnlyDigits(val.s)) >= 6
                     THEN find_one(registry, up, "phone", val.s) ELSE NONE
          byName  == find_one(registry, up, "full_name", val.s)
      IN IF byEmail = RAISED THEN RAISED
         ELSE IF byEmail # NONE THEN byEmail._id
         ELSE IF byPhone = RAISED THEN RAISED
         ELSE IF byPhone # NONE THEN byPhone._id
         ELSE IF byName = RAISED THEN RAISED
         ELSE IF byName # NONE THEN byName._id
         ELSE NONE

candidates == << "reported_by_user_id", "reported_by_user", "reported_by",
                 "reportedBy", "reportedById", "reportedBy_id",
                 "submittedBy", "submitted_by", "submittedById",
                 "user_id", "userId", "submitted_by_user_id" >>
meta_candidates == << "submitted_by", "reported_by" >>

\* The body of either loop for one value: an ObjectId or RAISED ends the
\* resolution, None goes on to the next key.
ResolveValue(val, registry, up) ==
    IF IsOid(val) THEN val
    ELSE IF Truthy(maybe_cast_to_objectid(val)) THEN maybe_cast_to_objectid(val)
    ELSE IF IsStr(val) THEN find_user_id_from_string(val, registry, up)
    ELSE NONE

\* for key in keys: if key in d and d.get(key): ...
RECURSIVE ResolveKeys(_, _, _, _, _)
ResolveKeys(d, keys, i, registry, up) ==
    IF i > Len(keys) THEN NONE
    ELSE IF HasKey(d, keys[i]) /\ Truthy(Get(d, keys[i]))
    THEN LET r == ResolveValue(Get(d, keys[i]), registry, up)
         IN IF r # NONE THEN r ELSE ResolveKeys(d, keys, i + 1, registry, up)
    ELSE ResolveKeys(d, keys, i + 1, registry, up)

\* _resolve_reporter_id_from_doc(doc): an ObjectId, None, or RAISED.  meta is
\* a dict or absent.
resolve_reporter_id_from_doc(d, registry, up) ==
    IF ~Truthy(d) THEN NONE
    ELSE LET top == ResolveKeys(d, candidates, 1, registry, up)
         IN IF top # NONE THEN top
            ELSE ResolveKeys(Or(Get(d, "meta"), EmptyDict), meta_candidates, 1, registry, up)

-----------------------------------------------------------------------------
(* merger.py: the Coordinate Extractor                                     *)

keyed_fields == << "center", "coords", "coordinates", "location_coords", "latlng", "lat_lng" >>
input_subs == << "sym_doc", "water_doc" >>

\* if d.get("lat") and d.get("lng"): candidates.append([d["lat"], d["lng"]])
TruthyPair(d, a, b) ==
    IF Truthy(Get(d, a)) /\ Truthy(Get(d, b)) THEN << List(<<Get(d, a), Get(d, b)>>) >> ELSE <<>>

\* The candidates one keyed field contributes.
KeyedCandidates(d, key) ==
    (IF IsList(Get(d, key)) /\ Len(Get(d, key).l) >= 2 THEN << Get(d, key) >> ELSE <<>>)
    \o (IF IsDict(Get(d, key)) /\ HasKey(Get(d, key), "lat") /\ HasKey(Get(d, key), "lng")
        THEN << List(<<Get(Get(d, key), "lat"), Get(Get(d, key), "lng")>>) >> ELSE <<>>)

RECURSIVE AllKeyed(_, _)
AllKeyed(d, i) ==
    IF i > Len(keyed_fields) THEN <<>> ELSE KeyedCandidates(d, keyed_fields[i]) \o AllKeyed(d, i + 1)

\* The candidates under doc["input"][sub].
InputCandidates(inp, sub) ==
    IF IsDict(Get(inp, sub))
    THEN TruthyPair(Get(inp, sub), "lat", "lng")
         \o (IF Truthy(Get(Get(inp, sub), "location_coords"))
             THEN << Get(Get(inp, sub), "location_coords") >> ELSE <<>>)
    ELSE <<>>

\* The candidates of one document, in the order the loop body appends them.
\* meta is a dict or absent.
DocCandidates(d) ==
    IF ~IsDict(d) THEN <<>>
    ELSE LET meta == Or(Get(d, "meta"), EmptyDict)
         IN AllKeyed(d, 1)
            \o TruthyPair(d, "lat", "lng")
            \o TruthyPair(d, "latitude", "longitude")
            \o (IF IsDict(Get(d, "input"))
                THEN InputCandidates(Get(d, "input"), input_subs[1])
                     \o InputCandidates(Get(d, "input"), input_subs[2])
                ELSE <<>>)
            \o (IF IsDict(Get(meta, "geo")) THEN TruthyPair(Get(meta, "geo"), "lat", "lng") ELSE <<>>)
            \o TruthyPair(meta, "lat", "lng")

\* The body of the final loop for one candidate: the coerced pair, or NONE when
\* the candidate has neither shape or float() raises.
CoercePair(c) ==
    IF IsDict(c) /\ HasKey(c, "lat") /\ HasKey(c, "lng")
    THEN IF FloatOk(Get(c, "lat")) /\ FloatOk(Get(c, "lng"))
         THEN List(<<Float(Get(c, "lat")), Float(Get(c, "lng"))>>) ELSE NONE
    ELSE IF IsList(c) /\ Len(c.l) >= 2
    THEN IF FloatOk(c.l[1]) /\ FloatOk(c.l[2])
         THEN List(<<Float(c.l[1]), Float(c.l[2])>>) ELSE NONE
    ELSE NONE

RECURSIVE PickFirst(_, _)
PickFirst(cands, i) ==
    IF i > Len(cands) THEN NONE
    ELSE IF CoercePair(cands[i]) # NONE THEN CoercePair(cands[i])
    ELSE PickFirst(cands, i + 1)

\* _extract_center(sym_doc, water_doc)
extract_center(sym, water) ==
    PickFirst(DocCandidates(Or(sym, EmptyDict)) \o DocCandidates(Or(water, EmptyDict)), 1)

-----------------------------------------------------------------------------
(* Inputs of the Feature Builder: a water document and a symptom document, *)
(* each None or a dict that differs from the empty or from the complete    *)
(* document in at most MaxDev keys (both documents together).              *)

MaxDev == 2

WaterKeys == {"district", "location", "primary_water_source", "water_source",
              "primaryWaterSource", "ph", "pH", "turbidity", "tds", "chlorine",
              "fluoride", "nitrate", "coliform", "temperature"}
SymptomKeys == {"district", "location", "symptoms"}

FieldVals == { ABSENT, NONE, Num(0), Num(7), Str(<<>>), Str(<<" ","K","a"," ">>),
               Str(<<"7">>) }
SymptomVals == { ABSENT, NONE, List(<<>>), Num(7),
                 List(<<Str(<<"F","e","v","e","r">>), Str(<<"s","t","o","m","a","c","h"," ","p","a","i","n">>)>>),
                 List(<<Str(s_diarrhea), Str(s_vomiting), Num(3), NONE>>),
                 Str(<<"F","e","v","e","r",","," ","H","e","a","d","a","c","h","e"," ",",","d","e","h","y","d","r","a","t","i","o","n">>),
                 Str(s_abdominal_pain) }
ValsOf(k) == IF k = "symptoms" THEN SymptomVals ELSE FieldVals

EmptyWater == [k \in WaterKeys |-> ABSENT]
FullWater ==
    [k \in WaterKeys |->
        CASE k \in {"district", "location"} -> Str(<<"W","d">>)
          [] k \in {"primary_water_source", "water_source", "primaryWaterSource"} -> Str(<<"w","e","l","l">>)
          [] OTHER -> Num(5)]
EmptySymptom == [k \in SymptomKeys |-> ABSENT]
FullSymptom ==
    [k \in SymptomKeys |->
        IF k = "symptoms" THEN List(<<Str(s_fever), Str(s_headache)>>) ELSE Str(<<"S","d">>)]

Override(base, K, v) == [k \in DOMAIN base |-> IF k \in K THEN v[k] ELSE base[k]]

InitFeatures ==
    /\ \E full \in BOOLEAN, wnone \in BOOLEAN, snone \in BOOLEAN :
       \E Kw \in {K \in SUBSET WaterKeys : Cardinality(K) <= MaxDev /\ (wnone => K = {})} :
       \E Ks \in {K \in SUBSET SymptomKeys : /\ Cardinality(K) + Cardinality(Kw) <= MaxDev
                                              /\ (snone => K = {})} :
       \E vw \in [Kw -> FieldVals] :
       \E vs \in {v \in [Ks -> FieldVals \cup SymptomVals] : \A k \in Ks : v[k] \in ValsOf(k)} :
          /\ w_doc = IF wnone THEN NONE
                     ELSE Dict(Override(IF full THEN FullWater ELSE EmptyWater, Kw, vw))
          /\ s_doc = IF snone THEN NONE
                     ELSE Dict(Override(IF full THEN FullSymptom ELSE EmptySymptom, Ks, vs))
    /\ features = NOT_CALLED
    /\ ResolverUnused /\ CenterUnused /\ FusionUnused /\ OutbreakUnused

\* features = build_features(w_doc, s_doc)
BuildFeatures ==
    /\ features = NOT_CALLED
    /\ features' = build_features(w_doc, s_doc)
    /\ UNCHANGED <<w_doc, s_doc, resolverVars, centerVars, fusionVars, outbreakVars>>

NextFeatures == BuildFeatures

SpecFeatures == InitFeatures /\ [][NextFeatures]_vars

\* C5: build_features returns, for every pair of documents whose present values
\* have the documented types (whatever keys are present), a mapping of exactly
\* 17 fields whose order is the column order train_model.py fits the classifier
\* on; whenever it returns at all, the mapping has that order.
WellTypedInputs ==
    /\ \A k \in {"district", "location"} : Get(s_doc, k).t \in {"none", "str"}
    /\ \A k \in {"district", "location", "primary_water_source", "water_source",
                 "primaryWaterSource"} : Get(w_doc, k).t \in {"none", "str"}
    /\ Get(s_doc, "symptoms").t \in {"none", "str", "list"}
FeatureOrderMatchesTraining ==
    features # NOT_CALLED =>
        /\ WellTypedInputs => features # RAISED
        /\ features # RAISED => Len(features.items) = 17 /\ Names(features) = feature_cols

\* C5 witness: a vector was built from documents in which some keys are present
\* and others are not.
FeatureOrderWitness ==
    /\ features # NOT_CALLED /\ features # RAISED
    /\ HasKey(w_doc, "tds") /\ ~HasKey(w_doc, "ph") /\ ~HasKey(w_doc, "district")
    /\ ~HasKey(s_doc, "symptoms")

\* C6: build_features never raises, for any combination of documents, and a
\* malformed field degrades to its default.
BuildFeaturesTotal ==
    features # NOT_CALLED =>
        /\ features # RAISED
        /\ ~(Get(w_doc, "district").t \in {"none", "str"}) /\ ~Truthy(Get(s_doc, "district"))
              => ItemVal(features, "district") = Str(<<>>)

-----------------------------------------------------------------------------
(* Inputs of the Identity Resolver: a user registry and a document with a  *)
(* reporter hint in at most MaxHints of the scanned positions.             *)

MaxHints == 2

User(id, email, phone, full_name) ==
    [_id |-> Oid(id), email |-> Str(email), phone |-> Str(phone), full_name |-> Str(full_name)]

U1 == User(<<"a","a","a","a","a","a","a","a","a","a","a","a","a","a","a","a","a","a","a","a","a","a","a","1">>,
           <<"A","@","b",".","c">>, <<"0","9","8","7","6","5","4">>, <<"A","s","h","a"," ","D">>)
U2 == User(<<"a","a","a","a","a","a","a","a","a","a","a","a","a","a","a","a","a","a","a","a","a","a","a","2">>,
           <<"1","@","2",".","3","4","5","6">>, <<"9","8","7","6","5","4","3">>, <<"x">>)
U3 == User(<<"a","a","a","a","a","a","a","a","a","a","a","a","a","a","a","a","a","a","a","a","a","a","a","3">>,
           <<"q","@","q",".","q">>, <<"+","1","2","3","4","5","6">>, <<"1","@","2",".","3","4","5","6">>)
Registries == { <<U2>>, <<U1, U2, U3>>, <<U3, U2, U1>>, <<U1, U3>> }

HexHint   == Str(<<"0","1","2","3","4","5","6","7","8","9","a","b","c","d","e","f","A","B","C","D","E","F","0","0">>)
HintVals == { Oid(<<"b","b","b","b","b","b","b","b","b","b","b","b","b","b","b","b","b","b","b","b","b","b","b","b">>),
              HexHint,
              Str(<<"a","@","B",".","C">>),          \* the email of U1, in another case
              Str(<<"1","@","2",".","3","4","5","6">>),       \* the email of U2, digits in the phone of U3, the name of U3
              Str(<<"9","8","-","7","6","-","5","4">>),       \* digits in the phones of U1 and U2
              Str(<<"a","s","h","a"," ","d">>),         \* the name of U1, in another case
              Str(<<>>),
              Num(5) }

HintSlots == { "reported_by_user_id", "reported_by", "submittedBy", "user_id",
               "meta.submitted_by", "meta.reported_by" }
MetaSlot(k) == IF k = "submitted_by" THEN "meta.submitted_by" ELSE "meta.reported_by"
TopKeys  == {candidates[i] : i \in DOMAIN candidates}
MetaKeys == {meta_candidates[i] : i \in DOMAIN meta_candidates}

\* The document that holds the hints h (a function from slots to values).
HintDoc(h) ==
    Dict([k \in TopKeys \cup {"meta"} |->
            IF k = "meta"
            THEN IF \E m \in MetaKeys : MetaSlot(m) \in DOMAIN h
                 THEN Dict([m \in MetaKeys |->
                              IF MetaSlot(m) \in DOMAIN h THEN h[MetaSlot(m)] ELSE ABSENT])
                 ELSE ABSENT
            ELSE IF k \in DOMAIN h THEN h[k] ELSE ABSENT])

InitResolver ==
    /\ \E S \in {K \in SUBSET HintSlots : Cardinality(K) <= MaxHints} :
       \E h \in [S -> HintVals] : doc = HintDoc(h)
    /\ users \in Registries
    /\ resolved = NOT_CALLED
    /\ FeaturesUnused /\ CenterUnused /\ FusionUnused /\ OutbreakUnused

\* resolved = await _resolve_reporter_id_from_doc(doc), the user store being
\* reachable (up) or not during the call
ResolveReporter ==
    /\ resolved = NOT_CALLED
    /\ \E up \in BOOLEAN :
          resolved' = [t |-> "ret", up |-> up, val |-> resolve_reporter_id_from_doc(doc, users, up)]
    /\ UNCHANGED <<featureVars, doc, users, centerVars, fusionVars, outbreakVars>>

NextResolver == ResolveReporter

SpecResolver == InitResolver /\ [][NextResolver]_vars

\* The values in the scanned positions, in scan order.
CascadeVals(d) ==
    [i \in 1..(Len(candidates) + Len(meta_candidates)) |->
        IF i <= Len(candidates) THEN Get(d, candidates[i])
        ELSE Get(Or(Get(d, "meta"), EmptyDict), meta_candidates[i - Len(candidates)])]
PresentHints(d) == {i \in DOMAIN CascadeVals(d) : CascadeVals(d)[i] # NONE}

MatchesNoUser(v) ==
    \A i \in 1..Len(users) :
        /\ users[i]._id # Oid(Lower(v.s))
        /\ ~EmailQuery(users[i], v.s) /\ ~PhoneQuery(users[i], v.s) /\ ~NameQuery(users[i], v.s)

OnlyHintIsUnmatchedHex ==
    /\ Cardinality(PresentHints(doc)) = 1
    /\ \A i \in PresentHints(doc) :
          /\ IsStr(CascadeVals(doc)[i]) /\ Len(CascadeVals(doc)[i].s) = 24
          /\ \A j \in 1..24 : IsHexChar(CascadeVals(doc)[i].s[j])
          /\ MatchesNoUser(CascadeVals(doc)[i])

\* C7 (as stated): resolving a document whose only reporter hint is a 24-hex
\* string that matches no user returns none and does not throw.
UnmatchedHexResolvesToNone ==
    resolved # NOT_CALLED /\ OnlyHintIsUnmatchedHex => resolved.val = NONE

\* C7 (amended): resolving such a document returns the identity handle the 24
\* hex digits denote, without a lookup, and does not throw, whether or not the
\* user store can be reached.
UnmatchedHexResolvesToHandle ==
    resolved # NOT_CALLED /\ OnlyHintIsUnmatchedHex =>
        \A i \in PresentHints(doc) : resolved.val = Oid(Lower(CascadeVals(doc)[i].s))

\* C7 witness: such a document was resolved against a non-empty registry while
\* the user store was unreachable.
UnmatchedHexWitness ==
    resolved # NOT_CALLED /\ OnlyHintIsUnmatchedHex /\ ~resolved.up /\ users # <<>>

\* The identity that strategy k (1 handle, 2 hex string, 3 email, 4 phone,
\* 5 full name) gives for the value v, NONE when it gives none.
FirstUserId(field, v) ==
    LET hits == {i \in 1..Len(users) : QueryMatches(users[i], field, v.s)}
    IN IF hits = {} THEN NONE ELSE users[CHOOSE i \in hits : \A j \in hits : i <= j]._id
StrategyOutcome(v, k) ==
    CASE k = 1 -> IF IsOid(v) THEN v ELSE NONE
      [] k = 2 -> IF IsStr(v) /\ Len(v.s) = 24 /\ (\A j \in 1..24 : IsHexChar(v.s[j]))
                  THEN Oid(Lower(v.s)) ELSE NONE
      [] k = 3 -> IF IsStr(v) /\ v.s # <<>> /\ Contains(v.s, <<"@">>) /\ Contains(v.s, <<".">>)
                  THEN FirstUserId("email", v) ELSE NONE
      [] k = 4 -> IF IsStr(v) /\ v.s # <<>> /\ Len(OnlyDigits(v.s)) >= 6
                  THEN FirstUserId("phone", v) ELSE NONE
      [] k = 5 -> IF IsStr(v) /\ v.s # <<>> THEN FirstUserId("full_name", v) ELSE NONE
CascadeHits(vals) == {p \in (DOMAIN vals) \X (1..5) : StrategyOutcome(vals[p[1]], p[2]) # NONE}
Before(p, q) == p[1] < q[1] \/ (p[1] = q[1] /\ p[2] <= q[2])
FirstHit(hits) == CHOOSE p \in hits : \A q \in hits : Before(p, q)

\* C8: with the user store reachable, the resolution is the identity given by
\* the first (key, strategy) pair, in the fixed key order and the strategy order
\* handle, hex string, email, phone, full name, that yields a match, and none
\* when no pair does; it is a function of the document and the registry.
CascadeFirstMatchWins ==
    resolved # NOT_CALLED /\ resolved.up =>
        LET vals == CascadeVals(doc)
            hits == CascadeHits(vals)
            first == FirstHit(hits)
        IN resolved.val = IF hits = {} THEN NONE ELSE StrategyOutcome(vals[first[1]], first[2])

\* C8 witness: a resolution decided by the phone lookup of a later key, after an
\* earlier key held a string that matched nobody.
CascadeWitness ==
    /\ resolved # NOT_CALLED /\ resolved.up
    /\ LET vals == CascadeVals(doc)
           hits == CascadeHits(vals)
           first == FirstHit(hits)
       IN /\ hits # {}
          /\ first[2] = 4
          /\ \E j \in 1..(first[1] - 1) : Truthy(vals[j]) /\ IsStr(vals[j])

-----------------------------------------------------------------------------
(* Inputs of the Coordinate Extractor: a symptom and a water document with *)
(* a coordinate pair in at most MaxCoords of the scanned positions.        *)

MaxCoords == 2

\* A pair of values, written as a [lat, lng] list or as a {lat, lng} object.
PairVals == { <<Num(10), Num(20)>>, <<Num(30), Num(40)>>, <<Num(0), Num(20)>>,
              <<Str(<<"7">>), Str(<<"8">>)>>, <<Str(<<"x">>), Num(20)>> }
CoordVals == [shape : {"list", "dict"}, pair : PairVals]

CoordPositions == { "center", "lat_lng", "lat/lng", "latitude/longitude", "input.sym_doc",
                    "input.water_doc.location_coords", "meta.geo", "meta" }
CoordSlots == {"sym", "water"} \X CoordPositions

AsList(v) == List(v.pair)
AsDict(v) == Dict([lat |-> v.pair[1], lng |-> v.pair[2]])
Shaped(v) == IF v.shape = "list" THEN AsList(v) ELSE AsDict(v)

CenterKeys == { "center", "coords", "coordinates", "location_coords", "latlng", "lat_lng",
                "lat", "lng", "latitude", "longitude", "input", "meta" }

\* The document of `who` that holds the coordinate hints h.
CenterDoc(who, h) ==
    LET has(p) == <<who, p>> \in DOMAIN h
        at(p)  == h[<<who, p>>]
    IN Dict([k \in CenterKeys |->
         CASE k \in {"center", "lat_lng"} -> IF has(k) THEN Shaped(at(k)) ELSE ABSENT
           [] k = "lat" -> IF has("lat/lng") THEN at("lat/lng").pair[1] ELSE ABSENT
           [] k = "lng" -> IF has("lat/lng") THEN at("lat/lng").pair[2] ELSE ABSENT
           [] k = "latitude"  -> IF has("latitude/longitude") THEN at("latitude/longitude").pair[1] ELSE ABSENT
           [] k = "longitude" -> IF has("latitude/longitude") THEN at("latitude/longitude").pair[2] ELSE ABSENT
           [] k = "input" ->
                IF has("input.sym_doc") \/ has("input.water_doc.location_coords")
                THEN Dict([sub \in {"sym_doc", "water_doc"} |->
                        IF sub = "sym_doc" /\ has("input.sym_doc")
                        THEN AsDict(at("input.sym_doc"))
                        ELSE IF sub = "water_doc" /\ has("input.water_doc.location_coords")
                        THEN Dict([location_coords |-> Shaped(at("input.water_doc.location_coords"))])
                        ELSE ABSENT])
                ELSE ABSENT
           [] k = "meta" ->
                IF has("meta.geo") \/ has("meta")
                THEN Dict([m \in {"geo", "lat", "lng"} |->
                        IF m = "geo" THEN (IF has("meta.geo") THEN AsDict(at("meta.geo")) ELSE ABSENT)
                        ELSE IF ~has("meta") THEN ABSENT
                        ELSE IF m = "lat" THEN at("meta").pair[1] ELSE at("meta").pair[2]])
                ELSE ABSENT
           [] OTHER -> ABSENT])

InitCenter ==
    /\ \E S \in {K \in SUBSET CoordSlots : Cardinality(K) <= MaxCoords} :
       \E h \in [S -> CoordVals] :
       \E snone \in BOOLEAN, wnone \in BOOLEAN :
          /\ snone => \A x \in S : x[1] # "sym"
          /\ wnone => \A x \in S : x[1] # "water"
          /\ sym_doc = IF snone THEN NONE ELSE CenterDoc("sym", h)
          /\ water_doc = IF wnone THEN NONE ELSE CenterDoc("water", h)
    /\ center = NOT_CALLED
    /\ FeaturesUnused /\ ResolverUnused /\ FusionUnused /\ OutbreakUnused

\* center = _extract_center(sym_doc, water_doc)
ExtractCenter ==
    /\ center = NOT_CALLED
    /\ center' = extract_center(sym_doc, water_doc)
    /\ UNCHANGED <<featureVars, resolverVars, sym_doc, water_doc, fusionVars, outbreakVars>>

NextCenter == ExtractCenter

SpecCenter == InitCenter /\ [][NextCenter]_vars

\* The pair a scanned position holds: both of its values are there, whatever
\* they are.
PresentPair(d, a, b) ==
    IF HasKey(d, a) /\ HasKey(d, b) THEN << <<Get(d, a), Get(d, b)>> >> ELSE <<>>
ShapedPair(v) ==
    IF IsList(v) /\ Len(v.l) >= 2 THEN << <<v.l[1], v.l[2]>> >>
    ELSE IF IsDict(v) THEN PresentPair(v, "lat", "lng")
    ELSE <<>>
RECURSIVE KeyedPairs(_, _)
KeyedPairs(d, i) ==
    IF i > Len(keyed_fields) THEN <<>>
    ELSE ShapedPair(Get(d, keyed_fields[i])) \o KeyedPairs(d, i + 1)
NestedPairs(d2) == PresentPair(d2, "lat", "lng") \o ShapedPair(Get(d2, "location_coords"))
\* The scan order of the claim: keyed fields, lat/lng, latitude/longitude, the
\* pairs nested under input, meta.geo (and the pair directly under meta, which
\* the code scans last).
ScannedPairs(d) ==
    KeyedPairs(d, 1)
    \o PresentPair(d, "lat", "lng")
    \o PresentPair(d, "latitude", "longitude")
    \o NestedPairs(Get(Get(d, "input"), "sym_doc"))
    \o NestedPairs(Get(Get(d, "input"), "water_doc"))
    \o PresentPair(Get(Get(d, "meta"), "geo"), "lat", "lng")
    \o PresentPair(Get(d, "meta"), "lat", "lng")
FirstCoercible(pairs) ==
    LET ok == {i \in 1..Len(pairs) : FloatOk(pairs[i][1]) /\ FloatOk(pairs[i][2])}
        first == CHOOSE i \in ok : \A j \in ok : i <= j
    IN IF ok = {} THEN NONE ELSE List(<<Float(pairs[first][1]), Float(pairs[first][2])>>)

\* C9: _extract_center returns the first pair, scanning the symptom document
\* before the water document and each document in the fixed order of positions,
\* whose two values both coerce to numbers; it skips a pair that does not
\* coerce, and the result is that one pair's own two values.
CenterIsFirstCoerciblePair ==
    center # NOT_CALLED =>
        center = FirstCoercible(ScannedPairs(sym_doc) \o ScannedPairs(water_doc))

\* C25: _extract_center returns None only when no scanned position of either
\* document holds a pair whose two values coerce to numbers.
NoneOnlyWithoutValidPair ==
    center = NONE =>
        FirstCoercible(ScannedPairs(sym_doc) \o ScannedPairs(water_doc)) = NONE

-----------------------------------------------------------------------------
(* merger.py, mongo_client.py: the fusion pipeline                         *)
(*                                                                         *)
(* Calls of merge_and_predict_and_store are coroutines on one event loop:  *)
(* a call runs alone from one await to the next, and the calls interleave  *)
(* at the awaits.  predict_disease is called without await, so the call    *)
(* that is inside it holds the loop (running) until it comes back.         *)

IDLE == 0

Label(name) == [t |-> "label", name |-> name]

\* _model.predict and _label_encoder.inverse_transform: the trained model is
\* a file, read when the module is loaded; whatever it holds, it gives one
\* label for one feature vector.  This one stands for it.
model_predict(features_used) ==
    IF ItemVal(features_used, "diarrhea") = Num(1) THEN Label("Cholera") ELSE Label("Typhoid")

\* water_input, lines 200-215
water_input(sym, water) ==
    Dict([location   |-> Or(Get(sym, "location"), Get(water, "location")),
          district   |-> Get(water, "district"),
          ph         |-> Or(Get(water, "pH"), Get(water, "ph")),
          turbidity  |-> Get(water, "turbidity"),
          tds        |-> Get(water, "tds"),
          chlorine   |-> Get(water, "chlorine"),
          fluoride   |-> Get(water, "fluoride"),
          nitrate    |-> Get(water, "nitrate"),
          coliform   |-> Get(water, "coliform"),
          temperature |-> Get(water, "temperature"),
          primary_water_source |->
              Or(Get(water, "primary_water_source"), Get(water, "water_source"))])

\* symptoms_list = sym_doc.get("symptoms", [])
symptoms_list(sym) == GetDefault(sym, "symptoms", List(<<>>))

\* predict_disease up to the call of the classifier: the feature vector, or
\* RAISED when the model is not loaded or the features cannot be built.
features_used_unguarded(w, s, loaded) ==
    build_features(Or(w, EmptyDict), Or(s, EmptyDict))
features_used(w, s, loaded) ==
    IF ~loaded THEN RAISED
    ELSE build_features(Or(w, EmptyDict), Or(s, EmptyDict))

\* The feature vector of a call with these two documents.
feature_vector(sym, water, loaded) ==
    IF ~IsDict(sym) \/ ~IsDict(water) THEN RAISED
    ELSE features_used(water_input(sym, water),
                       Dict([symptoms |-> symptoms_list(sym)]), loaded)

\* str(report_id)
StrOf(v) == Str(PyStr(v))

\* pred_doc, lines 239-251; _id is the one insert_one gives the document, one
\* for each call.  predicted_at, the time of the call, is left out.
pred_doc(f, sym, water, predicted_label, feature_vec, center_) ==
    [_id         |-> f,
     patientName |-> Get(sym, "patientName"),
     symptoms    |-> symptoms_list(sym),
     input_water |-> water_input(sym, water),
     features    |-> [predicted_disease |-> predicted_label,
                      feature_vector    |-> feature_vec,
                      center            |-> center_],
     symptom_id  |-> StrOf(Get(sym, "_id")),
     water_id    |-> IF Truthy(water) /\ Truthy(Get(water, "_id"))
                     THEN StrOf(Get(water, "_id")) ELSE NONE]

\* The dict the call returns, lines 288-292.
prediction(predicted_label, feature_vec, center_) ==
    [t |-> "prediction",
     predicted_disease |-> predicted_label,
     feature_vector    |-> feature_vec,
     center            |-> center_]

\* record_asha_submission: the update document applied to one record.
field_count(report_type) ==
    IF report_type = "symptom" THEN "symptom_report_count" ELSE "water_report_count"
field_ids(report_type) ==
    IF report_type = "symptom" THEN "symptom_report_ids" ELSE "water_report_ids"
Inc(v) == IF v = ABSENT THEN Num(1) ELSE Num(v.n + 1)
Push(v, x) == IF v = ABSENT THEN List(<<x>>) ELSE List(Append(v.l, x))
AppliedCountOnly(rec, report_type, report_id) ==
    [rec EXCEPT ![field_count(report_type)] = Inc(@)]
Applied(rec, report_type, report_id) ==
    [rec EXCEPT ![field_count(report_type)] = Inc(@),
                ![field_ids(report_type)] = Push(@, StrOf(report_id))]

\* The document an upsert inserts from the query {"user_id": user_id}.
Upserted(user_id) ==
    [user_id |-> user_id,
     symptom_report_count |-> ABSENT, water_report_count |-> ABSENT,
     symptom_report_ids |-> ABSENT, water_report_ids |-> ABSENT]

\* The records the query {"user_id": user_id} matches.
Matching(col, user_id) == {i \in DOMAIN col : col[i].user_id = user_id}

\* update_one on a collection that has a match: the first one is updated.
UpdateFirst(col, user_id, report_type, report_id) ==
    LET i == CHOOSE m \in Matching(col, user_id) :
                 \A n \in Matching(col, user_id) : m <= n
    IN [col EXCEPT ![i] = Applied(@, report_type, report_id)]

\* update_one(..., upsert=True) on a collection that had no match when the
\* server looked.
InsertNew(col, user_id, report_type, report_id) ==
    Append(col, Applied(Upserted(user_id), report_type, report_id))


(* The fusion pipeline: NumFusions calls on one event loop, each given one *)
(* of the pairs of reports below, over the users U1, U2, U3.               *)

NumFusions == 2
Fusions == 1..NumFusions
Sides == {"symptom", "water"}

Hex24(c) == [i \in 1..24 |-> c]

\* A symptom report whose reporter is found by email (U1), with coordinates.
Sym1 == Dict([_id |-> Oid(Hex24("1")),
              patientName |-> Str(<<"P">>),
              location |-> Str(<<" ","V","i","l">>),
              symptoms |-> List(<<Str(<<"D","i","a","r","r","h","e","a">>), Str(<<"f","e","v","e","r">>)>>),
              reported_by |-> Str(<<"a","@","B",".","C">>),
              lat |-> Num(26), lng |-> Num(94)])
\* A symptom report that names the id of U1 in 24 hex digits, with a district
\* and without a location.
Sym2 == Dict([_id |-> Oid(Hex24("2")),
              district |-> Str(<<"J","o">>),
              symptoms |-> Str(<<"v","o","m","i","t","i","n","g",","," ","F","e","v","e","r">>),
              user_id |-> Str(U1._id.h)])
\* A water report whose reporter is found by phone (U1).
Water1 == Dict([_id |-> Oid(Hex24("3")),
                district |-> Str(<<"K","a">>),
                location |-> Str(<<"W","a","t">>),
                pH |-> Num(7), turbidity |-> Str(<<"7">>),
                water_source |-> Str(<<"w","e","l","l">>),
                submitted_by |-> Str(<<"9","8","-","7","6","-","5","4">>)])
\* A water report without an id and without a reporter.
Water2 == Dict([district |-> Str(<<"K","a">>), location |-> Str(<<"W","l">>), ph |-> Num(7)])

\* A symptom report whose symptoms are a number.
Sym3 == Dict([_id |-> Oid(Hex24("4")), symptoms |-> Num(7)])

\* The last three pairs: no symptom document, no water document, and the
\* symptom report build_features cannot read.
FusionPairs == << [sym_doc |-> Sym1, water_doc |-> Water1],
                  [sym_doc |-> Sym2, water_doc |-> Water2],
                  [sym_doc |-> NONE, water_doc |-> Water2],
                  [sym_doc |-> Sym1, water_doc |-> NONE],
                  [sym_doc |-> Sym3, water_doc |-> Water2] >>

SymIds == {Get(Sym1, "_id"), Get(Sym2, "_id"), Get(Sym3, "_id")}

\* db["users"]
FusionUsers == <<U1, U2, U3>>

\* The arguments of the call f.
SymDoc(f)   == FusionPairs[requests[f]].sym_doc
WaterDoc(f) == FusionPairs[requests[f]].water_doc
DocOf(f, side) == IF side = "symptom" THEN SymDoc(f) ELSE WaterDoc(f)

\* What a call computes from its arguments alone, for each pair: the features
\* predict_disease builds (line 222) with the model loaded or not, and the
\* center (line 234).
Computed ==
    [i \in DOMAIN FusionPairs |->
        LET sym == FusionPairs[i].sym_doc
            water == FusionPairs[i].water_doc
        IN [features_used |-> [loaded \in BOOLEAN |-> feature_vector(sym, water, loaded)],
            center |-> extract_center(sym, water)]]


\* The reporter _resolve_reporter_id_from_doc finds in each document of each
\* pair (lines 270, 278), the user store being reachable (up) or not.
Reporters ==
    [i \in DOMAIN FusionPairs |-> [side \in Sides |-> [up \in BOOLEAN |->
        resolve_reporter_id_from_doc(
            IF side = "symptom" THEN FusionPairs[i].sym_doc ELSE FusionPairs[i].water_doc,
            FusionUsers, up)]]]

\* Where a call is: at one of these awaits (or inside the classifier), or done.
Stage(stage, side) ==
    CASE stage = "resolve" /\ side = "symptom" -> "resolve_symptom"
      [] stage = "resolve" /\ side = "water"   -> "resolve_water"
      [] stage = "record"  /\ side = "symptom" -> "record_symptom"
      [] stage = "record"  /\ side = "water"   -> "record_water"
      [] stage = "upsert"  /\ side = "symptom" -> "upsert_symptom"
      [] stage = "upsert"  /\ side = "water"   -> "upsert_water"


\* What follows the attribution of one side: the try block of the water side
\* after the one of the symptom side, the return statement after both.
AfterSide(side) == IF side = "symptom" THEN "resolve_water" ELSE "return"

\* The except clause an exception of the classifier reaches: the outer one,
\* line 294, which returns None.
ClassifierErrorIgnored == "insert"
AfterClassifierError == "abort"

\* The except clause an exception of the attribution of one side reaches: the
\* one of its own try block, lines 274 and 282.
AttributionErrorEscapes(side) == "abort"
AfterAttributionError(side) == AfterSide(side)

\* The except clause an exception of insert_one reaches: the outer one.
InsertErrorIgnored == "mark"
AfterInsertError == "abort"

\* What follows insert_one: the update of the symptom report, lines 261-264.
AfterInsertSkipsMark == "resolve_symptom"
AfterInsert == "mark"

\* What the outer except clause, lines 294-296, ends the call with: return None.
RaisedOnError == RAISED
ReturnedOnError == NONE

\* The call f goes on to target ("abort": return None from the outer except
\* clause; "return": return the prediction), having gone through ev.
Goto(f, target, ev) ==
    /\ pc' = [pc EXCEPT ![f] = IF target \in {"abort", "return"} THEN "done" ELSE target]
    /\ result' = [result EXCEPT ![f] =
                    IF target = "abort" THEN ReturnedOnError
                    ELSE IF target = "return"
                    THEN prediction(local[f].predicted_label,
                                    Computed[requests[f]].features_used[TRUE],
                                    Computed[requests[f]].center)
                    ELSE @]
    /\ trace' = [trace EXCEPT ![f] = Append(@, ev)]

\* Lines 196-222 and predict_disease up to _model.predict: the call takes the
\* loop, builds water_input and the features, and enters the classifier.
Begin(f) ==
    /\ pc[f] = "start" /\ running = IDLE
    /\ IF ~IsDict(SymDoc(f)) \/ ~IsDict(WaterDoc(f))
       THEN Goto(f, "abort", <<"merge", "raised">>) /\ UNCHANGED running
       ELSE IF Computed[requests[f]].features_used[model_loaded] = RAISED
       THEN Goto(f, AfterClassifierError, <<"classify", "raised">>) /\ UNCHANGED running
       ELSE Goto(f, "classify", <<"classify", "entered">>) /\ running' = f
    /\ UNCHANGED <<featureVars, resolverVars, centerVars, outbreakVars, model_loaded, requests, local,
                   prediction_col, symptom_col, asha_workers_col, user_id_index>>

\* _model.predict and inverse_transform raise, or give the label; then lines
\* 224-251, up to the await of insert_one, where the call gives up the loop.
Classify(f) ==
    /\ pc[f] = "classify" /\ running = f
    /\ running' = IDLE
    /\ \/ /\ Goto(f, AfterClassifierError, <<"classify", "raised">>)
          /\ UNCHANGED local
       \/ /\ local' = [local EXCEPT ![f].predicted_label =
                                 model_predict(Computed[requests[f]].features_used[TRUE])]
          /\ Goto(f, "insert", <<"classify", "ok">>)
    /\ UNCHANGED <<featureVars, resolverVars, centerVars, outbreakVars, model_loaded, requests,
                   prediction_col, symptom_col, asha_workers_col, user_id_index>>

\* await prediction_col.insert_one(pred_doc)
InsertPrediction(f) ==
    /\ pc[f] = "insert" /\ running = IDLE
    /\ \/ /\ prediction_col' = Append(prediction_col,
                 pred_doc(f, SymDoc(f), WaterDoc(f), local[f].predicted_label,
                          Computed[requests[f]].features_used[TRUE],
                          Computed[requests[f]].center))
          /\ Goto(f, AfterInsert, <<"insert", "ok">>)
       \/ /\ Goto(f, AfterInsertError, <<"insert", "raised">>)
          /\ UNCHANGED prediction_col
    /\ UNCHANGED <<featureVars, resolverVars, centerVars, outbreakVars, model_loaded, requests, running,
                   local, symptom_col, asha_workers_col, user_id_index>>

\* await symptom_col.update_one({"_id": sym_doc.get("_id")}, {"$set": ...})
MarkProcessed(f) ==
    /\ pc[f] = "mark" /\ running = IDLE
    /\ LET id == Get(SymDoc(f), "_id")
       IN \/ /\ symptom_col' = IF id \in DOMAIN symptom_col
                               THEN [symptom_col EXCEPT ![id].processed_by_model = TRUE]
                               ELSE symptom_col
             /\ Goto(f, "resolve_symptom", <<"mark", "ok">>)
          \/ /\ Goto(f, "abort", <<"mark", "raised">>)
             /\ UNCHANGED symptom_col
    /\ UNCHANGED <<featureVars, resolverVars, centerVars, outbreakVars, model_loaded, requests, running,
                   local, prediction_col, asha_workers_col, user_id_index>>

\* reporter_oid = await _resolve_reporter_id_from_doc(doc); the id of the doc;
\* the test of line 272 (280), the user store being reachable (up) or not.
Resolve(f, side) ==
    /\ pc[f] = Stage("resolve", side) /\ running = IDLE
    /\ \E up \in BOOLEAN :
          LET reporter_oid == Reporters[requests[f]][side][up]
              report_id == Get(DocOf(f, side), "_id")
          IN IF reporter_oid = RAISED
             THEN /\ Goto(f, AfterAttributionError(side), <<side, "failed">>)
                  /\ UNCHANGED local
             ELSE IF Truthy(reporter_oid) /\ Truthy(report_id)
             THEN /\ local' = [local EXCEPT ![f].reporter_oid = reporter_oid]
                  /\ Goto(f, Stage("record", side), <<side, "resolved">>)
             ELSE /\ Goto(f, AfterSide(side), <<side, "unresolved">>)
                  /\ UNCHANGED local
    /\ UNCHANGED <<featureVars, resolverVars, centerVars, outbreakVars, model_loaded, requests, running,
                   prediction_col, symptom_col, asha_workers_col, user_id_index>>

\* await record_asha_submission(reporter_oid, side, report_id): the server
\* looks for the record.  It updates the one it finds.  When it finds none it
\* inserts one: at once under the unique index, and without the index as a
\* later step, which other updates of the collection may come before.
Record(f, side) ==
    /\ pc[f] = Stage("record", side) /\ running = IDLE
    /\ LET user_id == local[f].reporter_oid
           report_id == Get(DocOf(f, side), "_id")
       IN \/ /\ Goto(f, AfterAttributionError(side), <<side, "failed">>)
             /\ UNCHANGED asha_workers_col
          \/ /\ Matching(asha_workers_col, user_id) # {}
             /\ asha_workers_col' = UpdateFirst(asha_workers_col, user_id, side, report_id)
             /\ Goto(f, AfterSide(side), <<side, "recorded">>)
          \/ /\ Matching(asha_workers_col, user_id) = {} /\ user_id_index
             /\ asha_workers_col' = InsertNew(asha_workers_col, user_id, side, report_id)
             /\ Goto(f, AfterSide(side), <<side, "recorded">>)
          \/ /\ Matching(asha_workers_col, user_id) = {} /\ ~user_id_index
             /\ Goto(f, Stage("upsert", side), <<side, "no match">>)
             /\ UNCHANGED asha_workers_col
    /\ UNCHANGED <<featureVars, resolverVars, centerVars, outbreakVars, model_loaded, requests, running,
                   local, prediction_col, symptom_col, user_id_index>>

\* The insert of an upsert that found no record.  If the unique index has been
\* created since and another record has come first, the server takes the
\* duplicate key error and applies the update to that record.
UpsertInsert(f, side) ==
    /\ pc[f] = Stage("upsert", side) /\ running = IDLE
    /\ LET user_id == local[f].reporter_oid
           report_id == Get(DocOf(f, side), "_id")
       IN asha_workers_col' =
             IF user_id_index /\ Matching(asha_workers_col, user_id) # {}
             THEN UpdateFirst(asha_workers_col, user_id, side, report_id)
             ELSE InsertNew(asha_workers_col, user_id, side, report_id)
    /\ Goto(f, AfterSide(side), <<side, "recorded">>)
    /\ UNCHANGED <<featureVars, resolverVars, centerVars, outbreakVars, model_loaded, requests, running,
                   local, prediction_col, symptom_col, user_id_index>>

\* create_or_update_asha_on_register: create_index("user_id", unique=True)
\* builds the index unless the collection holds two records of one user_id.
\* The update_one that follows names full_name, email, location, phone,
\* organization and updated_at under both $setOnInsert and $set, and the
\* server rejects such an update: the collection is left as it was.
Register ==
    /\ running = IDLE
    /\ user_id_index' =
          (user_id_index \/ \A i, j \in DOMAIN asha_workers_col :
                               asha_workers_col[i].user_id = asha_workers_col[j].user_id => i = j)
    /\ UNCHANGED <<featureVars, resolverVars, centerVars, outbreakVars, model_loaded, requests, pc, running,
                   local, trace, result, prediction_col, symptom_col, asha_workers_col>>

\* The calls are interchangeable: pair numbers are drawn in ascending order.
InitFusion ==
    /\ model_loaded \in BOOLEAN
    /\ \E idx \in [Fusions -> DOMAIN FusionPairs] :
          /\ \A f, g \in Fusions : f <= g => idx[f] <= idx[g]
          /\ requests = idx
    /\ pc = [f \in Fusions |-> "start"]
    /\ running = IDLE
    /\ local = [f \in Fusions |-> [predicted_label |-> NONE, reporter_oid |-> NONE]]
    /\ trace = [f \in Fusions |-> <<>>]
    /\ result = [f \in Fusions |-> NOT_CALLED]
    /\ prediction_col = <<>>
    /\ symptom_col = [id \in SymIds |-> [processed_by_model |-> FALSE]]
    /\ asha_workers_col = <<>>
    /\ user_id_index = FALSE
    /\ users = FusionUsers
    /\ doc = NONE /\ resolved = NOT_CALLED
    /\ FeaturesUnused /\ CenterUnused /\ OutbreakUnused

NextFusion ==
    \/ \E f \in Fusions : Begin(f)
    \/ \E f \in Fusions : Classify(f)
    \/ \E f \in Fusions : InsertPrediction(f)
    \/ \E f \in Fusions : MarkProcessed(f)
    \/ \E f \in Fusions, side \in Sides : Resolve(f, side)
    \/ \E f \in Fusions, side \in Sides : Record(f, side)
    \/ \E f \in Fusions, side \in Sides : UpsertInsert(f, side)
    \/ Register

SpecFusion == InitFusion /\ [][NextFusion]_vars

Happened(f, ev) == \E i \in DOMAIN trace[f] : trace[f][i] = ev
AllDone == \A f \in Fusions : pc[f] = "done"


ClassifierRaised(f) == Happened(f, <<"classify", "raised">>)
Stored(f) == \E i \in DOMAIN prediction_col : prediction_col[i]._id = f

\* The reports of one side the records of a collection count, all together.
RECURSIVE TotalCount(_, _)
TotalCount(col, side) ==
    IF col = <<>> THEN 0
    ELSE (IF Head(col)[field_count(side)] = ABSENT THEN 0 ELSE Head(col)[field_count(side)].n)
         + TotalCount(Tail(col), side)
Recordings(side) == Cardinality({f \in Fusions : Happened(f, <<side, "recorded">>)})

\* C1: a call whose classifier invocation raised has returned None and has
\* left nothing behind: no prediction record is its own, and every record there
\* is was written by a call whose classification succeeded; it has not marked
\* its symptom report, which is processed only if another call marked it; it
\* has recorded no activity, and the counts of the activity records add up to
\* the recordings of the other calls.
ClassifierFailureLeavesNothing ==
    /\ \A f \in Fusions : ClassifierRaised(f) =>
          /\ pc[f] = "done" /\ result[f] = NONE
          /\ ~Stored(f)
          /\ ~Happened(f, <<"mark", "ok">>)
          /\ symptom_col[Get(SymDoc(f), "_id")].processed_by_model =>
                \E g \in Fusions \ {f} :
                    /\ Get(SymDoc(g), "_id") = Get(SymDoc(f), "_id")
                    /\ Happened(g, <<"mark", "ok">>)
          /\ \A side \in Sides : ~Happened(f, <<side, "recorded">>)
    /\ \A i \in DOMAIN prediction_col :
          /\ ~ClassifierRaised(prediction_col[i]._id)
          /\ prediction_col[i].features.predicted_disease # NONE
    /\ \A side \in Sides : TotalCount(asha_workers_col, side) = Recordings(side)

\* One call went into the classifier, which raised, and the call is over;
\* another call has stored its prediction.
ClassifierFailureWitness ==
    \E f, g \in Fusions :
        /\ Happened(f, <<"classify", "entered">>) /\ ClassifierRaised(f) /\ pc[f] = "done"
        /\ g # f /\ Stored(g)

\* The reporter of one side of the call f, when the user store answers.
ReporterOf(f, side) == Reporters[requests[f]][side][TRUE]

\* C2: when all the calls are over, a reporter that N >= 1 of them recorded a
\* report of one side for has that count at exactly N.
ConcurrentAttributionsAllCounted ==
    AllDone =>
        \A side \in Sides : \A u \in DOMAIN users :
            LET user_id == users[u]._id
                N == Cardinality({f \in Fusions : /\ Happened(f, <<side, "recorded">>)
                                                  /\ ReporterOf(f, side) = user_id})
            IN N >= 1 =>
                  /\ Matching(asha_workers_col, user_id) # {}
                  /\ \A i \in Matching(asha_workers_col, user_id) :
                        asha_workers_col[i][field_count(side)] = Num(N)

AttributionFailed(f, side) ==
    Happened(f, <<side, "failed">>) \/ Happened(f, <<side, "unresolved">>)
AttributionAttempted(f, side) ==
    AttributionFailed(f, side) \/ Happened(f, <<side, "recorded">>)

\* C10: a call that failed to resolve a reporter or to record its activity has
\* its prediction record in the collection from then on and, once over, has
\* returned that prediction; if the failure was on the symptom side, the call
\* is at the attribution of the water report or has made that attempt.
AttributionFailuresAreSwallowed ==
    \A f \in Fusions : \A side \in Sides : AttributionFailed(f, side) =>
        /\ Stored(f)
        /\ pc[f] = "done" =>
              /\ result[f] # NONE
              /\ \E i \in DOMAIN prediction_col :
                    /\ prediction_col[i]._id = f
                    /\ prediction_col[i].features.predicted_disease = result[f].predicted_disease
        /\ side = "symptom" =>
              /\ pc[f] \in {"resolve_water", "record_water", "upsert_water", "done"}
              /\ pc[f] = "done" => AttributionAttempted(f, "water")

\* A call is over whose symptom-side attribution raised and whose water report
\* was recorded after that.
AttributionFailureWitness ==
    \E f \in Fusions :
        /\ pc[f] = "done"
        /\ Happened(f, <<"symptom", "failed">>)
        /\ Happened(f, <<"water", "recorded">>)

\* C11: when the model and the label decoder were not loaded, no call gets
\* past predict_disease: none enters the classifier and none is at a later
\* step, a call that is over has returned None after predict_disease (or the
\* lines before it) raised, no prediction record exists, no symptom report is
\* marked as processed and no activity is recorded.
ModelUnavailableRefusesFusion ==
    ~model_loaded =>
        /\ prediction_col = <<>>
        /\ asha_workers_col = <<>>
        /\ \A id \in DOMAIN symptom_col : ~symptom_col[id].processed_by_model
        /\ \A f \in Fusions :
              /\ pc[f] \in {"start", "done"}
              /\ ~Happened(f, <<"classify", "entered">>)
              /\ pc[f] = "done" =>
                    /\ result[f] = NONE
                    /\ ClassifierRaised(f) \/ Happened(f, <<"merge", "raised">>)

\* The model is not loaded and every call is over, one of them refused by
\* predict_disease.
ModelUnavailableWitness ==
    /\ ~model_loaded /\ AllDone
    /\ \E f \in Fusions : ClassifierRaised(f) /\ result[f] = NONE
\* C15: a call that is over has returned None or a prediction result, whatever
\* its documents were and whichever of its steps failed; no exception has left
\* it.
NeverRaisesPastBoundary ==
    \A f \in Fusions : pc[f] = "done" =>
        /\ result[f] # RAISED
        /\ result[f] = NONE \/ result[f].t = "prediction"
        /\ (\E step \in {"merge", "classify", "insert", "mark"} : Happened(f, <<step, "raised">>))
              => result[f] = NONE

\* Every call is over: one was given no document, and one failed at a write
\* after its classification.
NeverRaisesWitness ==
    /\ AllDone
    /\ \E f, g \in Fusions :
          /\ ~IsDict(SymDoc(f)) \/ ~IsDict(WaterDoc(f))
          /\ Happened(f, <<"merge", "raised">>) /\ result[f] = NONE
          /\ Happened(g, <<"classify", "ok">>)
          /\ Happened(g, <<"insert", "raised">>) \/ Happened(g, <<"mark", "raised">>)
          /\ result[g] = NONE

\* The value of a field when the symptom report comes first: its own value
\* when it has one that is not empty, the one of the water report otherwise,
\* as build_features keeps it (stripped, "" when there is none).
SymptomFirst(sym, water, key) == OrEmptyStrip(Or(Get(sym, key), Get(water, key)))

\* C19: in the feature vector of every prediction record, district and
\* location are those of the symptom report of the call when it has them, and
\* those of its water report otherwise.
SymptomSiteTakesPrecedence ==
    \A i \in DOMAIN prediction_col :
        LET f == prediction_col[i]._id
            feature_vec == prediction_col[i].features.feature_vector
        IN /\ ItemVal(feature_vec, "district")
                 = SymptomFirst(SymDoc(f), WaterDoc(f), "district")
           /\ ItemVal(feature_vec, "location")
                 = SymptomFirst(SymDoc(f), WaterDoc(f), "location")

\* C20: the activity records never hold two records of one user_id.
OneRecordPerReporter ==
    \A i, j \in DOMAIN asha_workers_col :
        asha_workers_col[i].user_id = asha_workers_col[j].user_id => i = j

\* The call f went through a before its j-th step.
Earlier(f, j, a) == \E i \in 1..(j - 1) : trace[f][i] = a

\* C21: in every call the classifier has given its label before the
\* prediction record is inserted, the record is inserted before the symptom
\* report is marked, the report is marked before any activity is recorded (or
\* looked for), and the symptom side is recorded before the water side.
StepsInStatedOrder ==
    \A f \in Fusions :
        /\ \A j \in DOMAIN trace[f] :
              LET ev == trace[f][j]
              IN /\ ev = <<"insert", "ok">> =>
                       Earlier(f, j, <<"classify", "ok">>) /\ Stored(f)
                 /\ ev = <<"mark", "ok">> => Earlier(f, j, <<"insert", "ok">>)
                 /\ ev[1] \in Sides => Earlier(f, j, <<"mark", "ok">>)
                 /\ ev = <<"water", "recorded">> =>
                       \E e \in {"recorded", "unresolved", "failed"} :
                           Earlier(f, j, <<"symptom", e>>)
                 /\ ev = <<"symptom", "recorded">> =>
                       ~Earlier(f, j, <<"water", "recorded">>)
        /\ pc[f] \in {"record_symptom", "upsert_symptom", "resolve_water",
                      "record_water", "upsert_water"} =>
              Stored(f) /\ symptom_col[Get(SymDoc(f), "_id")].processed_by_model

\* A call is over that went through every step: both of its reports are
\* recorded.
StepsInStatedOrderWitness ==
    \E f \in Fusions :
        /\ pc[f] = "done" /\ result[f] # NONE
        /\ Happened(f, <<"symptom", "recorded">>)
        /\ Happened(f, <<"water", "recorded">>)

\* The prediction records the call f inserted.
RecordsOf(f) == {i \in DOMAIN prediction_col : prediction_col[i]._id = f}

\* C22: a call that is over has inserted exactly one prediction record when
\* it returned a prediction, and none when it returned None.
OneRecordIffResult ==
    \A f \in Fusions : pc[f] = "done" =>
        IF result[f] = NONE THEN RecordsOf(f) = {}
        ELSE Cardinality(RecordsOf(f)) = 1

\* The 8 measurements of build_features, lines 71-78, and the value a water
\* report holds for one of them (pH is read under both of its names).
measurements == {"ph", "turbidity", "tds", "chlorine", "fluoride", "nitrate",
                 "coliform", "temperature"}
Reported(water, k) ==
    IF k = "ph" THEN Or(Get(water, "pH"), Get(water, "ph")) ELSE Get(water, k)

\* C24: in input_water of every prediction record, a measurement the water
\* report omits, or holds no number for, is the number 0, and district and
\* location are strings, the empty one when neither report has a value.
InputWaterDefaulted ==
    \A i \in DOMAIN prediction_col :
        LET f == prediction_col[i]._id
            input_water == prediction_col[i].input_water
        IN /\ \A k \in measurements :
                 ~FloatOk(Reported(WaterDoc(f), k)) => Get(input_water, k) = Num(0)
           /\ \A k \in {"district", "location"} :
                 /\ IsStr(Get(input_water, k))
                 /\ ~Truthy(Or(Get(SymDoc(f), k), Get(WaterDoc(f), k))) =>
                       Get(input_water, k) = Str(<<>>)

\* C28: the prediction records never hold two records of one symptom report.
OneRecordPerSymptomReport ==
    \A i, j \in DOMAIN prediction_col :
        prediction_col[i].symptom_id = prediction_col[j].symptom_id => i = j

\* The count and the ids a record holds for one side; a field the record does
\* not have reads as 0 and as no ids.
CountOf(rec, side) ==
    IF rec[field_count(side)] = ABSENT THEN 0 ELSE rec[field_count(side)].n
IdsOf(rec, side) ==
    IF rec[field_ids(side)] = ABSENT THEN <<>> ELSE rec[field_ids(side)].l

\* C29: in every activity record, symptom_report_count is the length of
\* symptom_report_ids and water_report_count the length of water_report_ids,
\* and a record has the count of a side exactly when it has its ids.
CountsMatchIds ==
    \A i \in DOMAIN asha_workers_col : \A side \in Sides :
        /\ CountOf(asha_workers_col[i], side) = Len(IdsOf(asha_workers_col[i], side))
        /\ (asha_workers_col[i][field_count(side)] = ABSENT)
              <=> (asha_workers_col[i][field_ids(side)] = ABSENT)

\* A registration has built the index and one record has been updated twice
\* on one side, by an upsert that inserted it and by a later update.
CountsMatchIdsWitness ==
    /\ user_id_index
    /\ \E i \in DOMAIN asha_workers_col : \E side \in Sides :
          CountOf(asha_workers_col[i], side) = 2

\* C30: a symptom report that carries the processed flag has a prediction
\* record whose symptom_id is its id; a call that has recorded an activity has
\* its prediction record in the collection, and every report id an activity
\* record lists is the id of a report of a call whose prediction record is in
\* the collection.
ProcessedAndCountedHaveRecord ==
    /\ \A id \in DOMAIN symptom_col : symptom_col[id].processed_by_model =>
          \E i \in DOMAIN prediction_col : prediction_col[i].symptom_id = StrOf(id)
    /\ \A f \in Fusions : \A side \in Sides :
          Happened(f, <<side, "recorded">>) => Stored(f)
    /\ \A r \in DOMAIN asha_workers_col : \A side \in Sides :
          \A n \in DOMAIN IdsOf(asha_workers_col[r], side) :
             \E f \in Fusions :
                /\ Stored(f)
                /\ IsDict(DocOf(f, side))
                /\ StrOf(Get(DocOf(f, side), "_id")) = IdsOf(asha_workers_col[r], side)[n]

\* One call has marked its symptom report and recorded an activity; another
\* call, for another symptom report, failed at insert_one and is over.
ProcessedAndCountedWitness ==
    \E f, g \in Fusions :
        /\ Happened(f, <<"mark", "ok">>)
        /\ \E side \in Sides : Happened(f, <<side, "recorded">>)
        /\ Happened(g, <<"insert", "raised">>) /\ pc[g] = "done"
        /\ requests[f] # requests[g]

\* A step of the call g, whichever it is.
Step(g) ==
    \/ Begin(g) \/ Classify(g) \/ InsertPrediction(g) \/ MarkProcessed(g)
    \/ \E side \in Sides : Resolve(g, side) \/ Record(g, side) \/ UpsertInsert(g, side)

\* C12: while one call is inside the classifier, every other call that is not
\* over can take its next step.
ClassifierNeverStallsOthers ==
    \A f \in Fusions : pc[f] = "classify" =>
        \A g \in Fusions \ {f} : pc[g] # "done" => ENABLED Step(g)

-----------------------------------------------------------------------------
(* routes/prediction_outbreaks.py: the outbreak aggregator                 *)
(*                                                                         *)
(* A collection is a bag: for each kind of document (the values of its     *)
(* grouping fields) the number of documents inside the time window.        *)
(* Coordinates are in 1/10000 of a degree.  The id and the date of a       *)
(* bucket are left out.                                                    *)

OUTBREAK_MIN_THRESHOLD == 5
OUTBREAK_HIGH_THRESHOLD == 15

\* The entries of DISTRICT_COORDS for the names used below.
DISTRICT_COORDS ==
    << [key |-> <<"j","o","r","h","a","t">>, val |-> <<267509, 942037>>],
       [key |-> <<"J","o","r","h","a","t">>, val |-> <<267500, 942000>>],
       [key |-> <<"t","u","r","a">>,         val |-> <<255141, 902032>>] >>

InCoords(key) == \E i \in DOMAIN DISTRICT_COORDS : DISTRICT_COORDS[i].key = key
CoordsAt(key) == DISTRICT_COORDS[CHOOSE i \in DOMAIN DISTRICT_COORDS :
                                     DISTRICT_COORDS[i].key = key].val

\* _get_coordinates(district, location)
get_coordinates(district, location) ==
    LET district_str == Strip(district.s)
        location_str == Strip(location.s)
    IN IF Truthy(district) /\ InCoords(district_str) THEN List(CoordsAt(district_str))
       ELSE IF Truthy(district) /\ InCoords(Lower(district_str))
       THEN List(CoordsAt(Lower(district_str)))
       ELSE IF Truthy(location) /\ InCoords(location_str) THEN List(CoordsAt(location_str))
       ELSE IF Truthy(location) /\ InCoords(Lower(location_str))
       THEN List(CoordsAt(Lower(location_str)))
       ELSE NONE

determine_color(total_predictions) ==
    IF total_predictions >= OUTBREAK_HIGH_THRESHOLD THEN "red"
    ELSE IF total_predictions >= OUTBREAK_MIN_THRESHOLD THEN "yellow"
    ELSE "green"

determine_severity(total_predictions) ==
    IF total_predictions >= OUTBREAK_HIGH_THRESHOLD THEN "high"
    ELSE IF total_predictions >= OUTBREAK_MIN_THRESHOLD THEN "medium"
    ELSE "low"

\* {"$regex": "^" + disease + "$", "$options": "i"}, when a disease is given
DiseaseMatches(kind, disease) ==
    Truthy(disease) => (IsStr(kind.disease) /\ Lower(kind.disease.s) = Lower(disease.s))

\* {"$regex": district, "$options": "i"}, when a district is given
DistrictMatches(kind, district) ==
    Truthy(district) =>
        (IsStr(kind.district) /\ Contains(Lower(kind.district.s), Lower(district.s)))

\* $match and $group: one document for each kind the bag holds and the match
\* stage lets through (matched).
Grouped(kinds, bag, matched) ==
    {[_id |-> kinds[i], total |-> bag[i]] :
        i \in {k \in DOMAIN kinds : bag[k] > 0 /\ k \in matched}}

\* {"$match": {total: {"$gte": min_threshold}}}
AllGroups(groups, min_threshold) == groups
AtThreshold(groups, min_threshold) == {g \in groups : g.total >= min_threshold}

\* {"$sort": {total: -1}}: the orders the server may give, equal totals in
\* any order.
Sorted(groups) ==
    {s \in [1..Cardinality(groups) -> groups] :
        /\ \A i, j \in DOMAIN s : i < j => s[i] # s[j] /\ s[i].total >= s[j].total}

\* {"$limit": limit}
Limited(s, limit) == SubSeq(s, 1, IF Len(s) < limit THEN Len(s) ELSE limit)

\* The documents the cursor of pred_pipeline may give, lines 165-182.
PredMatches(q, kind) == DiseaseMatches(kind, q.disease) /\ DistrictMatches(kind, q.district)
pred_aggregation(kinds, bag, q) ==
    AtThreshold(Grouped(kinds, bag, {k \in DOMAIN kinds : PredMatches(q, kinds[k])}),
                q.min_threshold)
pred_pipeline(kinds, bag, q) ==
    {Limited(s, q.limit) : s \in Sorted(pred_aggregation(kinds, bag, q))}

\* The documents the cursor of symptom_pipeline may give, lines 232-248.
symptom_aggregation(kinds, bag, q) ==
    AtThreshold(Grouped(kinds, bag, {k \in DOMAIN kinds : DistrictMatches(kinds[k], q.district)}),
                q.min_threshold)
symptom_pipeline(kinds, bag, q) ==
    {Limited(s, q.limit) : s \in Sorted(symptom_aggregation(kinds, bag, q))}

Unknown == Str(<<"U","n","k","n","o","w","n">>)
Cholera == Str(<<"C","h","o","l","e","r","a">>)
Typhoid == Str(<<"T","y","p","h","o","i","d">>)
Diarrhea == Str(<<"D","i","a","r","r","h","e","a">>)

\* The bucket of one document of the prediction cursor, lines 187-213.
pred_bucket(d) ==
    LET district_name == Or(d._id.district, Str(<<>>))
        area_name == Or(d._id.area, district_name)
        disease_name == Or(d._id.disease, Unknown)
    IN [district |-> district_name,
        areaName |-> area_name,
        disease  |-> disease_name,
        totalPredictions |-> d.total,
        coordinates |-> get_coordinates(district_name, area_name),
        color    |-> determine_color(d.total),
        severity |-> determine_severity(d.total),
        source   |-> "prediction_reports"]

\* The disease inferred from the symptoms of a group, lines 282-291.
inferred_disease(symptom_str) ==
    IF Contains(symptom_str, s_diarrhea)
       /\ (Contains(symptom_str, s_vomiting) \/ Contains(symptom_str, s_dehydration))
    THEN Cholera
    ELSE IF Contains(symptom_str, s_fever) /\ Contains(symptom_str, <<"a","b","d","o","m","i","n","a","l">>)
    THEN Typhoid
    ELSE IF Contains(symptom_str, s_fever) /\ Contains(symptom_str, s_headache)
    THEN Typhoid
    ELSE IF Contains(symptom_str, s_diarrhea) THEN Diarrhea
    ELSE Unknown

\* The bucket of one document of the symptom cursor, lines 253-305.
symptom_bucket(d) ==
    LET district_name == Or(d._id.district, Str(<<>>))
        area_name == Or(d._id.area, district_name)
    IN [district |-> district_name,
        areaName |-> area_name,
        disease  |-> inferred_disease(Lower(d._id.symptoms.s)),
        totalPredictions |-> d.total,
        coordinates |-> get_coordinates(district_name, area_name),
        color    |-> determine_color(d.total),
        severity |-> determine_severity(d.total),
        source   |-> "symptoms_reports"]

\* existing, lines 258-259
Existing(outbreaks, b) ==
    \E i \in DOMAIN outbreaks :
        /\ Lower(outbreaks[i].district.s) = Lower(b.district.s)
        /\ Lower(outbreaks[i].areaName.s) = Lower(b.areaName.s)

\* The loop over the symptom cursor, lines 252-305, from document i on.
RECURSIVE SymptomLoop(_, _, _)
SymptomLoop(outbreaks, cursor, i) ==
    IF i > Len(cursor) THEN outbreaks
    ELSE IF Existing(outbreaks, symptom_bucket(cursor[i]))
    THEN SymptomLoop(outbreaks, cursor, i + 1)
    ELSE SymptomLoop(Append(outbreaks, symptom_bucket(cursor[i])), cursor, i + 1)

\* outbreaks.sort(key=totalPredictions, reverse=True): stable, buckets of equal
\* count stay in the order they were appended in.
AppendOrder(outbreaks) == outbreaks
RECURSIVE SortDesc(_)
SortDesc(outbreaks) ==
    IF outbreaks = <<>> THEN <<>>
    ELSE LET top == CHOOSE i \in DOMAIN outbreaks :
                        /\ \A j \in DOMAIN outbreaks :
                              outbreaks[j].totalPredictions <= outbreaks[i].totalPredictions
                        /\ \A j \in 1..(i - 1) :
                              outbreaks[j].totalPredictions < outbreaks[i].totalPredictions
         IN <<outbreaks[top]>>
            \o SortDesc(SubSeq(outbreaks, 1, top - 1) \o SubSeq(outbreaks, top + 1, Len(outbreaks)))

\* get_prediction_outbreaks, given what the two cursors gave (<<>> for a query
\* that raised: the except clause goes on without its documents).
prediction_outbreaks(pred_cursor, symptom_cursor, q) ==
    LET from_pred == [i \in DOMAIN pred_cursor |-> pred_bucket(pred_cursor[i])]
        outbreaks == SortDesc(SymptomLoop(from_pred, symptom_cursor, 1))
    IN [outbreaks  |-> Limited(outbreaks, q.limit),
        thresholds |-> [min |-> q.min_threshold, high |-> q.high_threshold],
        total_outbreak_areas |-> Len(outbreaks)]


-----------------------------------------------------------------------------
(* One call of get_prediction_outbreaks over two collections that hold     *)
(* documents of at most MaxKinds of the kinds below.                       *)

MaxKinds == 3
MaxLimit == 2

\* The kinds of prediction record: district, area, predicted disease.
PredKinds ==
    << [district |-> Str(<<"J","o","r","h","a","t">>), area |-> Str(<<"V","i","l">>), disease |-> Cholera],
       [district |-> Str(<<"j","o","r","h","a","t">>), area |-> Str(<<"V","I","L">>), disease |-> Typhoid],
       [district |-> Str(<<"T","u","r","a">>), area |-> NONE, disease |-> Cholera],
       [district |-> Str(<<"T","u","r","a">>), area |-> Str(<<"T","u","r","a">>), disease |-> Cholera] >>

\* The kinds of symptom report: district, area, symptoms.
SymptomKinds ==
    << [district |-> Str(<<"J","O","R","H","A","T">>), area |-> Str(<<"v","i","l">>),
        symptoms |-> Str(<<"F","e","v","e","r"," ","h","e","a","d","a","c","h","e">>)],
       [district |-> Str(<<"T","u","r","a">>), area |-> Str(<<"t","u","r","a">>),
        symptoms |-> Str(<<"d","i","a","r","r","h","e","a"," ","v","o","m","i","t","i","n","g">>)],
       [district |-> Str(<<"M","a","j">>), area |-> NONE,
        symptoms |-> Str(<<"c","o","u","g","h">>)] >>

\* How many documents of a kind there are, when there are any.
CountVals == {4, 6, 21, 26}
\* (min_threshold, high_threshold): the defaults, the thresholds of the
\* documentation of _determine_color, and a minimum below the defaults.
ThresholdVals == {<<5, 15>>, <<20, 25>>, <<1, 15>>}
\* (disease, district) filters
FilterVals == {<<NONE, NONE>>, <<Str(<<"c","h","o","l","e","r","a">>), NONE>>}

Slots == ({"pred"} \X DOMAIN PredKinds) \cup ({"symptom"} \X DOMAIN SymptomKinds)
BagOf(src, kinds, h) ==
    [k \in DOMAIN kinds |-> IF <<src, k>> \in DOMAIN h THEN h[<<src, k>>] ELSE 0]

InitOutbreaks ==
    /\ \E S \in {K \in SUBSET Slots : Cardinality(K) <= MaxKinds} :
       \E h \in [S -> CountVals] :
          /\ prediction_bag = BagOf("pred", PredKinds, h)
          /\ symptom_bag = BagOf("symptom", SymptomKinds, h)
    /\ \E th \in ThresholdVals, f \in FilterVals, limit \in 1..MaxLimit :
          query = [disease |-> f[1], district |-> f[2],
                   min_threshold |-> th[1], high_threshold |-> th[2], limit |-> limit]
    /\ response = NOT_CALLED
    /\ FeaturesUnused /\ ResolverUnused /\ CenterUnused /\ FusionUnused

\* response = await get_prediction_outbreaks(...): each of the two queries
\* raises or gives its documents, in one of the orders $sort allows.
GetPredictionOutbreaks ==
    /\ response = NOT_CALLED
    /\ \E pred_raised, symptom_raised \in BOOLEAN :
       \E pred_cursor \in IF pred_raised THEN {<<>>}
                          ELSE pred_pipeline(PredKinds, prediction_bag, query) :
       \E symptom_cursor \in IF symptom_raised THEN {<<>>}
                             ELSE symptom_pipeline(SymptomKinds, symptom_bag, query) :
          response' = [t |-> "response",
                       body |-> prediction_outbreaks(pred_cursor, symptom_cursor, query),
                       pred_raised |-> pred_raised,
                       symptom_raised |-> symptom_raised]
    /\ UNCHANGED <<featureVars, resolverVars, centerVars, fusionVars,
                   prediction_bag, symptom_bag, query>>

NextOutbreaks == GetPredictionOutbreaks

SpecOutbreaks == InitOutbreaks /\ [][NextOutbreaks]_vars



\* C3: every bucket of the prediction source counts at least min_threshold
\* predictions, has severity "medium" and color "yellow" when it counts fewer
\* than high_threshold and severity "high" and color "red" when it counts
\* high_threshold or more; and a group that counts min_threshold or more has
\* its bucket in the list, unless the query raised or the list is full.
ThresholdsDecideSeverity ==
    response # NOT_CALLED =>
        LET out == response.body.outbreaks
            m == query.min_threshold
            h == query.high_threshold
        IN /\ \A i \in DOMAIN out : out[i].source = "prediction_reports" =>
                 /\ out[i].totalPredictions >= m
                 /\ out[i].totalPredictions < h =>
                       out[i].severity = "medium" /\ out[i].color = "yellow"
                 /\ out[i].totalPredictions >= h =>
                       out[i].severity = "high" /\ out[i].color = "red"
           /\ (~response.pred_raised /\ Len(out) < query.limit) =>
                 \A g \in pred_aggregation(PredKinds, prediction_bag, query) :
                     \E i \in DOMAIN out : out[i] = pred_bucket(g)

\* Two buckets of one (district, area), whatever the case of the letters.
SameKey(b, c) ==
    /\ Lower(b.district.s) = Lower(c.district.s)
    /\ Lower(b.areaName.s) = Lower(c.areaName.s)

\* C4: when a (district, area) reaches min_threshold in the aggregation of the
\* prediction source and in the one of the symptom source, the list holds no
\* bucket of the symptom source for it, and it holds a bucket of the prediction
\* source for it unless the list is cut at limit.
CrossSourceDedup ==
    response # NOT_CALLED =>
        LET out == response.body.outbreaks
        IN \A p \in pred_aggregation(PredKinds, prediction_bag, query) :
           \A s \in symptom_aggregation(SymptomKinds, symptom_bag, query) :
              SameKey(pred_bucket(p), symptom_bucket(s)) =>
                 /\ ~\E i \in DOMAIN out : /\ out[i].source = "symptoms_reports"
                                           /\ SameKey(out[i], pred_bucket(p))
                 /\ \/ \E i \in DOMAIN out : /\ out[i].source = "prediction_reports"
                                             /\ SameKey(out[i], pred_bucket(p))
                    \/ Len(out) = query.limit

\* The key of a bucket.
BucketKey(b) == <<b.district, b.areaName, b.disease>>

\* C13: no two buckets of the list a call returns have the same
\* (district, area, disease).
BucketsUniqueByKey ==
    response # NOT_CALLED =>
        LET out == response.body.outbreaks
        IN \A i, j \in DOMAIN out : BucketKey(out[i]) = BucketKey(out[j]) => i = j

\* C14: a call one of whose two queries raised does not return a bucket list:
\* what its caller receives is a failure.
QueryFailureIsSurfaced ==
    (response # NOT_CALLED /\ (response.pred_raised \/ response.symptom_raised)) =>
        /\ response.t # "response"
        /\ "body" \notin DOMAIN response

\* C16: when the call was given a disease, every bucket of the list it returns
\* has that disease, whatever the case of the letters.
DiseaseFilterApplies ==
    (response # NOT_CALLED /\ Truthy(query.disease)) =>
        LET out == response.body.outbreaks
        IN \A i \in DOMAIN out : Lower(out[i].disease.s) = Lower(query.disease.s)

\* C17: the list a call returns is in non-increasing order of count and holds
\* at most limit buckets: the first limit ones of all the buckets found, or all
\* of them when they are fewer.
SortedAndLimited ==
    response # NOT_CALLED =>
        LET out == response.body.outbreaks
            found == response.body.total_outbreak_areas
        IN /\ Len(out) <= query.limit
           /\ Len(out) = IF found < query.limit THEN found ELSE query.limit
           /\ \A i, j \in DOMAIN out :
                 i < j => out[i].totalPredictions >= out[j].totalPredictions

\* A call found more buckets than limit and returned limit of them, one of the
\* symptom source before one of the prediction source that counts less.
SortedAndLimitedWitness ==
    /\ response # NOT_CALLED
    /\ response.body.total_outbreak_areas > query.limit
    /\ Len(response.body.outbreaks) = query.limit
    /\ \E i, j \in DOMAIN response.body.outbreaks :
          /\ i < j
          /\ response.body.outbreaks[i].source = "symptoms_reports"
          /\ response.body.outbreaks[j].source = "prediction_reports"
          /\ response.body.outbreaks[i].totalPredictions
                > response.body.outbreaks[j].totalPredictions

\* C18: every bucket of the list a call returns, of either source, counts at
\* least the min_threshold of the call, and its count is the number of
\* documents of one group of its source.
BucketsReachThreshold ==
    response # NOT_CALLED =>
        LET out == response.body.outbreaks
        IN \A i \in DOMAIN out :
              /\ out[i].totalPredictions >= query.min_threshold
              /\ out[i].source = "prediction_reports" =>
                    \E k \in DOMAIN PredKinds : prediction_bag[k] = out[i].totalPredictions
              /\ out[i].source = "symptoms_reports" =>
                    \E k \in DOMAIN SymptomKinds : symptom_bag[k] = out[i].totalPredictions

\* A call returned a bucket of each source while a group of the prediction
\* store with fewer documents than min_threshold has none.
BucketsReachThresholdWitness ==
    /\ response # NOT_CALLED
    /\ \E i, j \in DOMAIN response.body.outbreaks :
          /\ response.body.outbreaks[i].source = "prediction_reports"
          /\ response.body.outbreaks[j].source = "symptoms_reports"
    /\ \E k \in DOMAIN PredKinds :
          /\ prediction_bag[k] > 0 /\ prediction_bag[k] < query.min_threshold
          /\ PredMatches(query, PredKinds[k])
          /\ \A i \in DOMAIN response.body.outbreaks :
                response.body.outbreaks[i].totalPredictions # prediction_bag[k]

\* C23: no bucket of the list a call returns has severity "low" or color
\* "green", whatever min_threshold and high_threshold the call was given.
LowTierUnreachable ==
    response # NOT_CALLED =>
        LET out == response.body.outbreaks
        IN \A i \in DOMAIN out : out[i].severity # "low" /\ out[i].color # "green"

\* C26: two buckets whose district and area differ in the case of their
\* letters only have the same coordinates (or both none), and a bucket whose
\* district has an entry in DISTRICT_COORDS has coordinates.
CoordinatesIgnoreCase ==
    response # NOT_CALLED =>
        LET out == response.body.outbreaks
        IN /\ \A i, j \in DOMAIN out :
                 SameKey(out[i], out[j]) => out[i].coordinates = out[j].coordinates
           /\ \A i \in DOMAIN out :
                 InCoords(Lower(Strip(out[i].district.s))) => out[i].coordinates # NONE

\* The buckets of all the groups at threshold, of the prediction source and,
\* for the keys that source does not have, of the symptom source.
DedupedUnion ==
    LET preds == {pred_bucket(g) : g \in pred_aggregation(PredKinds, prediction_bag, query)}
        symptoms == {symptom_bucket(g) :
                        g \in symptom_aggregation(SymptomKinds, symptom_bag, query)}
    IN preds \cup {s \in symptoms : ~\E p \in preds : SameKey(p, s)}

\* C27: when neither query raised, the list a call returns is made of the
\* limit highest counts of the deduplicated union: each of its buckets is in
\* the union, no bucket left out counts more than one that is in, and a
\* bucket is left out only when the list is full.
TopOfDedupedUnion ==
    (response # NOT_CALLED /\ ~response.pred_raised /\ ~response.symptom_raised) =>
        LET out == response.body.outbreaks
            kept == {out[i] : i \in DOMAIN out}
        IN /\ kept \subseteq DedupedUnion
           /\ \A b \in DedupedUnion \ kept :
                 /\ Len(out) = query.limit
                 /\ \A c \in kept : c.totalPredictions >= b.totalPredictions

====
